---- MODULE Spec2Model ----
(***************************************************************************)
(* A model of MonteCarlo.py: the Option class (constructor, closed-form    *)
(* Black-Scholes-Merton valuation, __repr__), the Monte Carlo loop of      *)
(* simulate() and the discounted payoff average of calc_expected_price().  *)
(*                                                                         *)
(* Reals are fixed-point integers with SCALE units per 1.0 (100.0 is       *)
(* 100000).  Results of float64 operations that can leave the finite       *)
(* range (a division by 0.0, the mean of nothing) are IEEE values: a       *)
(* record [c, v] with c one of "fin", "inf" (v is the sign) and "nan".     *)
(* numpy reports these with a RuntimeWarning and carries on; it raises     *)
(* nothing.                                                                *)
(***************************************************************************)
EXTENDS Integers, Sequences, FiniteSets, TLC

VARIABLES
    option,           \* the Option object, or NoOption before construction
    pc,               \* "idle", or "sim" while simulate()'s loop is running
    last_op,          \* the operation that completed last
    ret,              \* its outcome: a returned value or a raised exception
    num_simulations,  \* simulate(): argument
    sim_dt,           \* simulate(): argument dt
    S_t,              \* simulate(): local S_t, a scalar and later a vector
    n,                \* simulate(): local n
    simulated_paths,  \* simulate(): local list
    arr,              \* the caller's array: simulate()'s result or its own
    rng,              \* state of the process-wide generator (np.random)
    rng_entry         \* rng as it was when the current/last simulate() began

vars == <<option, pc, last_op, ret, num_simulations, sim_dt, S_t, n,
          simulated_paths, arr, rng, rng_entry>>

-----------------------------------------------------------------------------
(* Bounds of the model.                                                    *)

MaxN == 2        \* largest num_simulations passed to simulate()
MaxLen == 2      \* longest row of an array the caller builds itself

-----------------------------------------------------------------------------
(* Fixed-point reals.                                                      *)

SCALE == 1000

Mul(a, b) == (a * b + SCALE \div 2) \div SCALE
Div(a, b) == (a * SCALE + b \div 2) \div b

RECURSIVE ISqrtBetween(_, _, _)
ISqrtBetween(v, lo, hi) ==
    IF lo >= hi THEN lo
    ELSE LET mid == (lo + hi + 1) \div 2
         IN  IF mid * mid <= v THEN ISqrtBetween(v, mid, hi)
                               ELSE ISqrtBetween(v, lo, mid - 1)

\* np.sqrt on a finite x >= 0
Sqrt(x) == ISqrtBetween(x * SCALE, 0, 46340)

RECURSIVE ExpSeries(_, _, _)
ExpSeries(x, term, k) ==
    IF k > 10 \/ term = 0 THEN 0
    ELSE term + ExpSeries(x, (2 * term * x + k * SCALE) \div (2 * k * SCALE),
                          k + 1)

\* np.float_power(e, x): the exponential series around 0
Exp(x) == ExpSeries(x, SCALE, 1)

\* np.log on a finite x > 0: 2 * atanh((x - 1)/(x + 1))
Ln(x) ==
    LET y  == Div(x - SCALE, x + SCALE)
        y2 == Mul(y, y)
        y3 == Mul(y2, y)
        y5 == Mul(y3, y2)
    IN  2 * (y + y3 \div 3 + y5 \div 5)

\* Standard normal CDF at 0.0, 0.1, ... 4.0
PhiTable ==
    << 500, 540, 579, 618, 655, 691, 726, 758, 788, 816,
       841, 864, 885, 903, 919, 933, 945, 955, 964, 971,
       977, 982, 986, 989, 992, 994, 995, 997, 997, 998,
       999, 999, 999, 1000, 1000, 1000, 1000, 1000, 1000, 1000, 1000 >>

PhiPos(x) ==
    LET step == SCALE \div 10
        i    == x \div step
        f    == x % step
    IN  IF i >= 40 THEN SCALE
        ELSE PhiTable[i + 1] + ((PhiTable[i + 2] - PhiTable[i + 1]) * f) \div step

\* norm.cdf on a finite x
Phi(x) == IF x >= 0 THEN PhiPos(x) ELSE SCALE - PhiPos(-x)

-----------------------------------------------------------------------------
(* IEEE values.                                                            *)

Fin(v) == [c |-> "fin", v |-> v]
PosInf == [c |-> "inf", v |-> 1]
NegInf == [c |-> "inf", v |-> -1]
NaN    == [c |-> "nan", v |-> 0]
NoVal  == [c |-> "none", v |-> 0]

Sign(v) == IF v > 0 THEN 1 ELSE IF v < 0 THEN -1 ELSE 0

FNeg(a) ==
    IF a.c = "nan" THEN NaN ELSE [c |-> a.c, v |-> -a.v]

FAdd(a, b) ==
    IF a.c = "nan" \/ b.c = "nan" THEN NaN
    ELSE IF a.c = "inf" /\ b.c = "inf"
         THEN (IF a.v = b.v THEN a ELSE NaN)
    ELSE IF a.c = "inf" THEN a
    ELSE IF b.c = "inf" THEN b
    ELSE Fin(a.v + b.v)

FSub(a, b) == FAdd(a, FNeg(b))

FMul(a, b) ==
    IF a.c = "nan" \/ b.c = "nan" THEN NaN
    ELSE IF a.c = "fin" /\ b.c = "fin" THEN Fin(Mul(a.v, b.v))
    ELSE IF Sign(a.v) * Sign(b.v) = 0 THEN NaN
    ELSE [c |-> "inf", v |-> Sign(a.v) * Sign(b.v)]

\* float64 / float64 in numpy: x/0.0 is +-inf, 0.0/0.0 is nan
FDiv(a, b) ==
    IF b # 0 THEN Fin(Div(a, b))
    ELSE IF a > 0 THEN PosInf
    ELSE IF a < 0 THEN NegInf
    ELSE NaN

\* norm.cdf on an IEEE value
Cdf(a) ==
    IF a.c = "nan" THEN NaN
    ELSE IF a.c = "inf" THEN (IF a.v > 0 THEN Fin(SCALE) ELSE Fin(0))
    ELSE Fin(Phi(a.v))

-----------------------------------------------------------------------------
(* Strings are sequences of characters.                                    *)

LowerChar(ch) ==
    CASE ch = "C" -> "c" [] ch = "A" -> "a" [] ch = "L" -> "l"
      [] ch = "P" -> "p" [] ch = "U" -> "u" [] ch = "T" -> "t"
      [] ch = "S" -> "s" [] ch = "W" -> "w"
      [] OTHER -> ch

UpperChar(ch) ==
    CASE ch = "c" -> "C" [] ch = "a" -> "A" [] ch = "l" -> "L"
      [] ch = "p" -> "P" [] ch = "u" -> "U" [] ch = "t" -> "T"
      [] ch = "s" -> "S" [] ch = "w" -> "W"
      [] OTHER -> ch

\* str.lower()
Lower(s) == [i \in 1..Len(s) |-> LowerChar(s[i])]

\* str.capitalize()
Capitalize(s) ==
    [i \in 1..Len(s) |-> IF i = 1 THEN UpperChar(s[i]) ELSE LowerChar(s[i])]

CallStr == <<"c", "a", "l", "l">>
PutStr  == <<"p", "u", "t">>

-----------------------------------------------------------------------------
(* Values the callers pass.                                                *)

Strikes  == {90000, 100000}
Spots    == {100000}
Expiries == {0, 1000}
Rates    == {50}
Vols     == {0, 200}
Kinds    == {CallStr, <<"C", "a", "l", "l">>, PutStr, <<"P", "U", "T">>,
             <<"s", "w", "a", "p">>}
Dts      == {250}
Prices   == {80000, 120000}

Counts == 0..MaxN

RowsOfLen(len) == [1..len -> Prices]

\* arrays a caller builds without simulate(): np.array([]), one row, or the
\* same row twice
CallerArrays ==
    {<<>>}
    \cup UNION {{<<row>> : row \in RowsOfLen(len)} : len \in 1..MaxLen}
    \cup UNION {{<<row, row>> : row \in RowsOfLen(len)} : len \in 1..MaxLen}

-----------------------------------------------------------------------------
(* class Option                                                            *)

NoOption == [K |-> 0, T |-> 0, S_0 |-> 0, r |-> 0, sigma |-> 0,
             putOrcall |-> <<>>]

\* Option.__init__: six assignments, no validation
NewOption(K, T, S_0, r, sigma, putOrCall) ==
    [K |-> K, T |-> T, S_0 |-> S_0, r |-> r, sigma |-> sigma,
     putOrcall |-> Lower(putOrCall)]

Returned(v) == [status |-> "return", exc |-> "", val |-> v, text |-> <<>>]
Raised(e)   == [status |-> "raise", exc |-> e, val |-> NoVal, text |-> <<>>]
NoRet       == [status |-> "none", exc |-> "", val |-> NoVal, text |-> <<>>]

\* sigma * sqrt(T), the divisor of d_1
Denominator(o) == Mul(o.sigma, Sqrt(o.T))

D1(o) ==
    FDiv(Ln(Div(o.S_0, o.K)) + Mul(o.r + Mul(o.sigma, o.sigma) \div 2, o.T),
         Denominator(o))

D2(o) == FSub(D1(o), Fin(Denominator(o)))

\* Option.calc_black_scholes_merton.  discount_factor is assigned on the
\* call branch only; the else branch reads the unbound local.
calc_black_scholes_merton(o) ==
    LET d_1 == D1(o)
        d_2 == D2(o)
    IN  IF o.putOrcall = CallStr
        THEN LET discount_factor == Mul(-o.r, o.T)
             IN  Returned(FSub(FMul(Fin(o.S_0), Cdf(d_1)),
                               FMul(Fin(Mul(o.K, Exp(discount_factor))), d_2)))
        ELSE Raised("UnboundLocalError")

\* format spec .2f: hundredths
Fmt2f(x) == (x * 100 + SCALE \div 2) \div SCALE

\* format spec .2%: hundredths of a percent
Fmt2pct(x) == (x * 10000 + SCALE \div 2) \div SCALE

\* Option.__repr__
Repr(o) ==
    [kind   |-> Capitalize(o.putOrcall),
     Strike |-> Fmt2f(o.K),
     Spot   |-> Fmt2f(o.S_0),
     Expiry |-> Fmt2f(o.T),
     Rate   |-> Fmt2pct(o.r),
     Vol    |-> Fmt2pct(o.sigma)]

-----------------------------------------------------------------------------
(* The process-wide generator behind np.random.normal.                     *)

RngModulus == 8

NextRng(s) == (5 * s + 3) % RngModulus

RECURSIVE Advance(_, _)
Advance(s, k) == IF k = 0 THEN s ELSE Advance(NextRng(s), k - 1)

\* the standard normal variate the generator yields in state s
StdNormal(s) == <<300, -1200, 0, 1200, -300, 700, -700, 2000>>[s + 1]

\* np.random.normal(0, scale, size) started in state s: the vector drawn
Normal(s, scale, size) ==
    [j \in 1..size |-> Mul(scale, StdNormal(Advance(s, j - 1)))]

-----------------------------------------------------------------------------
(* simulate()                                                              *)

Scalar(x) == [shape |-> "scalar", v |-> x]
Vector(x) == [shape |-> "vector", v |-> x]

\* element j of S_t under numpy broadcasting
Elem(s, j) == IF s.shape = "scalar" THEN s.v ELSE s.v[j]

\* the loop test with < for <=
LoopCondStrict(i, count) == i < count

\* while n <= num_simulations
LoopCond(i, count) == i <= count

\* the shock scaled by the running level instead of S_0
DiffusionOnLevel(o, level, z) == Mul(Mul(o.sigma, level), z)

\* sigma * S_0 * delta_z[j]
Diffusion(o, level, z) == Mul(Mul(o.sigma, o.S_0), z)

\* d_S = S_t + (r * dt) + (sigma * S_0 * delta_z)
StepVector(o, s, dt, delta_z) ==
    [j \in 1..Len(delta_z) |->
        Elem(s, j) + Mul(o.r, dt) + Diffusion(o, Elem(s, j), delta_z[j])]

-----------------------------------------------------------------------------
(* calc_expected_price()                                                   *)

Max(a, b) == IF a >= b THEN a ELSE b

\* the two payoff branches exchanged
PayoffSwapped(o, price) ==
    IF o.putOrcall = CallStr THEN Max(o.K - price, 0) ELSE Max(price - o.K, 0)

\* np.maximum(price - K, 0) for 'call', else np.maximum(K - price, 0)
Payoff(o, price) ==
    IF o.putOrcall = CallStr THEN Max(price - o.K, 0) ELSE Max(o.K - price, 0)

RECURSIVE SumSeq(_)
SumSeq(s) == IF s = <<>> THEN 0 ELSE Head(s) + SumSeq(Tail(s))

RECURSIVE SumRows(_, _)
SumRows(o, a) ==
    IF a = <<>> THEN 0
    ELSE SumSeq([j \in 1..Len(Head(a)) |-> Payoff(o, Head(a)[j])])
         + SumRows(o, Tail(a))

RECURSIVE Size(_)
Size(a) == IF a = <<>> THEN 0 ELSE Len(Head(a)) + Size(Tail(a))

\* np.average over every element: the sum over the size, nan for size 0
Average(o, a) ==
    IF Size(a) = 0 THEN NaN
    ELSE Fin((2 * SumRows(o, a) + Size(a)) \div (2 * Size(a)))

calc_expected_price(a, o) ==
    LET discount_factor == Mul(-1 * o.r, o.T)
    IN  Returned(FMul(Average(o, a), Fin(Exp(discount_factor))))

-----------------------------------------------------------------------------
(* The state machine.                                                      *)

Init ==
    /\ option = NoOption
    /\ pc = "idle"
    /\ last_op = "none"
    /\ ret = NoRet
    /\ num_simulations = 0
    /\ sim_dt = 0
    /\ S_t = Scalar(0)
    /\ n = 0
    /\ simulated_paths = <<>>
    /\ arr = <<>>
    /\ rng \in 0..(RngModulus - 1)
    /\ rng_entry = rng

SimLocals == <<num_simulations, sim_dt, S_t, n, simulated_paths, rng_entry>>

\* Option(K, T, S_0, r, sigma, putOrCall)
Construct ==
    /\ pc = "idle"
    /\ option = NoOption
    /\ \E K \in Strikes, T \in Expiries, S_0 \in Spots, r \in Rates,
          sigma \in Vols, kind \in Kinds :
          option' = NewOption(K, T, S_0, r, sigma, kind)
    /\ last_op' = "init"
    /\ ret' = NoRet
    /\ UNCHANGED <<pc, arr, rng, SimLocals>>

\* option.calc_black_scholes_merton()
BlackScholesMerton ==
    /\ pc = "idle"
    /\ option # NoOption
    /\ last_op' = "bsm"
    /\ ret' = calc_black_scholes_merton(option)
    /\ UNCHANGED <<option, pc, arr, rng, SimLocals>>

\* __repr__ storing the capitalised kind back into the object
ReprCallStoring ==
    /\ pc = "idle"
    /\ option # NoOption
    /\ last_op' = "repr"
    /\ ret' = [status |-> "return", exc |-> "", val |-> NoVal,
               text |-> <<Repr(option)>>]
    /\ option' = [option EXCEPT !.putOrcall = Capitalize(@)]
    /\ UNCHANGED <<pc, arr, rng, SimLocals>>

\* repr(option)
ReprCall ==
    /\ pc = "idle"
    /\ option # NoOption
    /\ last_op' = "repr"
    /\ ret' = [status |-> "return", exc |-> "", val |-> NoVal,
               text |-> <<Repr(option)>>]
    /\ UNCHANGED <<option, pc, arr, rng, SimLocals>>

\* simulate() seeding the generator on entry
SimulateEnterSeeded ==
    /\ pc = "idle"
    /\ option # NoOption
    /\ \E count \in Counts, dt \in Dts :
          /\ num_simulations' = count
          /\ sim_dt' = dt
    /\ simulated_paths' = <<>>
    /\ S_t' = Scalar(option.S_0)
    /\ n' = 1
    /\ rng_entry' = rng
    /\ rng' = 0
    /\ pc' = "sim"
    /\ UNCHANGED <<option, last_op, ret, arr>>

\* simulate(num_simulations, option, dt): entry up to the loop
SimulateEnter ==
    /\ pc = "idle"
    /\ option # NoOption
    /\ \E count \in Counts, dt \in Dts :
          /\ num_simulations' = count
          /\ sim_dt' = dt
    /\ simulated_paths' = <<>>
    /\ S_t' = Scalar(option.S_0)
    /\ n' = 1
    /\ rng_entry' = rng
    /\ pc' = "sim"
    /\ UNCHANGED <<option, last_op, ret, arr, rng>>

\* one iteration of the while loop
SimulateStep ==
    /\ pc = "sim"
    /\ LoopCond(n, num_simulations)
    /\ LET delta_z == Normal(rng, Sqrt(sim_dt), num_simulations)
           d_S     == StepVector(option, S_t, sim_dt, delta_z)
       IN  /\ simulated_paths' = Append(simulated_paths, d_S)
           /\ S_t' = Vector(d_S)
    /\ rng' = Advance(rng, num_simulations)
    /\ n' = n + 1
    /\ UNCHANGED <<option, pc, last_op, ret, arr, num_simulations, sim_dt,
                   rng_entry>>

\* loop exit: return np.array(simulated_paths)
SimulateReturn ==
    /\ pc = "sim"
    /\ ~LoopCond(n, num_simulations)
    /\ arr' = simulated_paths
    /\ last_op' = "simulate"
    /\ ret' = Returned(NoVal)
    /\ pc' = "idle"
    /\ simulated_paths' = <<>>
    /\ S_t' = Scalar(0)
    /\ UNCHANGED <<option, rng, num_simulations, sim_dt, n, rng_entry>>

\* the caller builds an array of its own to price
CallerArray ==
    /\ pc = "idle"
    /\ option # NoOption
    /\ \E a \in CallerArrays : arr' = a
    /\ last_op' = "array"
    /\ ret' = NoRet
    /\ UNCHANGED <<option, pc, rng, SimLocals>>

\* calc_expected_price(arr, option)
ExpectedPrice ==
    /\ pc = "idle"
    /\ option # NoOption
    /\ last_op' = "price"
    /\ ret' = calc_expected_price(arr, option)
    /\ UNCHANGED <<option, pc, arr, rng, SimLocals>>

Next ==
    \/ Construct
    \/ BlackScholesMerton
    \/ ReprCall
    \/ SimulateEnter
    \/ SimulateStep
    \/ SimulateReturn
    \/ CallerArray
    \/ ExpectedPrice

Spec == Init /\ [][Next]_vars

-----------------------------------------------------------------------------
(* Properties.                                                             *)

Constructed == option # NoOption
IsCall == option.putOrcall = CallStr
IsPut  == option.putOrcall = PutStr
Discount == Exp(Mul(-option.r, option.T))
SimulateDone == pc = "idle" /\ last_op = "simulate"

\* C1: for a call with sigma > 0 and T > 0, calc_black_scholes_merton
\* returns S0*Phi(d1) - K*e^(-rT)*Phi(d2).
C1_CallValueUsesCdfOfD2 ==
    (last_op = "bsm" /\ IsCall /\ option.sigma > 0 /\ option.T > 0)
    => ret = Returned(FSub(FMul(Fin(option.S_0), Cdf(D1(option))),
                           FMul(Fin(Mul(option.K, Discount)),
                                Cdf(D2(option)))))

\* C2: for a put with sigma > 0 and T > 0, calc_black_scholes_merton
\* completes and returns K*e^(-rT)*Phi(-d2) - S0*Phi(-d1).
C2_PutValueReturned ==
    (last_op = "bsm" /\ IsPut /\ option.sigma > 0 /\ option.T > 0)
    => ret = Returned(FSub(FMul(Fin(Mul(option.K, Discount)),
                                Cdf(FNeg(D2(option)))),
                           FMul(Fin(option.S_0), Cdf(FNeg(D1(option))))))

\* C3: every constructed Option has kind 'call' or 'put' (any other kind
\* fails at construction), so no pricing operation runs on another kind.
C3_KindIsCallOrPut ==
    Constructed => (IsCall \/ IsPut)

\* C4: calc_black_scholes_merton on an Option with sigma = 0 or T = 0 raises
\* InvalidParameterError and returns no value.
C4_ZeroVolOrExpiryRaises ==
    (last_op = "bsm" /\ (option.sigma = 0 \/ option.T = 0))
    => (ret.status = "raise" /\ ret.exc = "InvalidParameterError")

\* C5: calc_expected_price on an input with no values raises EmptyInputError
\* and returns no value.
C5_EmptyInputRaises ==
    (last_op = "price" /\ Size(arr) = 0)
    => (ret.status = "raise" /\ ret.exc = "EmptyInputError")

\* C6: simulate(N, option, dt) holds n - 1 rows on entry to iteration n,
\* never runs past iteration N, and returns after exactly N iterations with
\* exactly N rows, each of length N.
C6_SimulateShape ==
    /\ pc = "sim" =>
          /\ Len(simulated_paths) = n - 1
          /\ n <= num_simulations + 1
          /\ \A i \in 1..Len(simulated_paths) :
                Len(simulated_paths[i]) = num_simulations
    /\ SimulateDone =>
          /\ n = num_simulations + 1
          /\ Len(arr) = num_simulations
          /\ \A i \in 1..Len(arr) : Len(arr[i]) = num_simulations

C6_Witness ==
    SimulateDone /\ num_simulations >= 2 /\ Len(arr) = num_simulations

RECURSIVE C7_Flat(_)
C7_Flat(a) == IF a = <<>> THEN <<>> ELSE Head(a) \o C7_Flat(Tail(a))

C7_PayoffOf(price) ==
    IF IsCall THEN (IF price > option.K THEN price - option.K ELSE 0)
              ELSE (IF option.K > price THEN option.K - price ELSE 0)

C7_Mean(f) ==
    LET total == SumSeq([i \in 1..Len(f) |-> C7_PayoffOf(f[i])])
    IN  (2 * total + Len(f)) \div (2 * Len(f))

\* C7: for a call or a put, calc_expected_price returns e^(-rT) times the
\* mean over every value of the input of max(price - K, 0) (call) or
\* max(K - price, 0) (put); every payoff is >= 0; for a call on an input
\* whose values all equal V > K the result is (V - K) * e^(-rT).
C7_DiscountedMeanPayoff ==
    (last_op = "price" /\ (IsCall \/ IsPut) /\ Size(arr) > 0)
    => LET f == C7_Flat(arr)
       IN  /\ \A i \in 1..Len(f) : Payoff(option, f[i]) >= 0
           /\ ret = Returned(Fin(Mul(C7_Mean(f), Discount)))
           /\ (IsCall /\ f[1] > option.K /\ \A i \in 1..Len(f) : f[i] = f[1])
              => ret.val = Fin(Mul(f[1] - option.K, Discount))

C7_Witness ==
    /\ last_op = "price" /\ IsCall
    /\ arr = <<<<120000, 120000>>, <<120000, 120000>>>>
    /\ option.K = 100000 /\ option.T > 0
    /\ ret.val = Fin(19020)

\* C8: once constructed an Option never changes, whatever is called on it,
\* and calc_expected_price leaves the array it is given unchanged.
C8_OptionNeverMutated ==
    [][ /\ Constructed => option' = option
        /\ (pc = "idle" /\ pc' = "idle" /\ last_op' = "price") => arr' = arr
      ]_vars

C8_Witness ==
    /\ Constructed /\ last_op = "price" /\ ret.status = "return"
    /\ arr # <<>> /\ option.putOrcall = PutStr

\* shock k of the call at position j: the generator's variate number
\* (k - 1) * N + j after entry, scaled by sqrt(dt)
C9_Shock(k, j) ==
    Mul(Sqrt(sim_dt),
        StdNormal(Advance(rng_entry, (k - 1) * num_simulations + (j - 1))))

RECURSIVE C9_ShockSum(_, _)
C9_ShockSum(k, j) ==
    IF k = 0 THEN 0
    ELSE Mul(Mul(option.sigma, option.S_0), C9_Shock(k, j))
         + C9_ShockSum(k - 1, j)

C9_ClosedForm(rows) ==
    \A k \in 1..Len(rows) : \A j \in 1..Len(rows[k]) :
        rows[k][j] = option.S_0 + k * Mul(option.r, sim_dt) + C9_ShockSum(k, j)

\* C9: S_t starts as the scalar S0 and becomes the vector appended last;
\* element j of row k is S0 + k*r*dt + the sum over steps i <= k of
\* sigma*S0*(shock i at position j): the shocks are scaled by S0, never by
\* the running level.
C9_AdditiveWalkFromS0 ==
    /\ pc = "sim" =>
          /\ C9_ClosedForm(simulated_paths)
          /\ S_t = IF n = 1 THEN Scalar(option.S_0)
                   ELSE Vector(simulated_paths[n - 1])
    /\ SimulateDone => C9_ClosedForm(arr)

C9_Witness ==
    /\ SimulateDone /\ num_simulations >= 2 /\ option.sigma > 0
    /\ arr[2][1] # arr[1][1] /\ arr[1][1] # option.S_0

\* C10: the generator is one continuing stream: only a loop iteration of
\* simulate moves it, each by the N variates of one vector, so a call of
\* count N leaves it N*N variates past where the call found it, and nothing
\* reseeds or resets it.
C10_OneContinuingStream ==
    /\ [](pc = "sim" => rng = Advance(rng_entry, (n - 1) * num_simulations))
    /\ [](SimulateDone =>
            rng = Advance(rng_entry, num_simulations * num_simulations))
    /\ [][ IF pc = "sim" /\ pc' = "sim" /\ n' = n + 1
           THEN rng' = Advance(rng, num_simulations)
           ELSE rng' = rng ]_vars

C10_Witness ==
    /\ SimulateDone /\ num_simulations >= 2
    /\ rng # rng_entry
    /\ rng = Advance(rng_entry, num_simulations * num_simulations)

====
